---- MODULE Spec2Model ----
(***************************************************************************)
(* Model of SrxHelper.security_zones (files/python/firewall.py) as driven  *)
(* by main() (files/python/main.py): the per-host sequence open, load,     *)
(* pdiff, commit_check, commit or rollback, close, and the except clause   *)
(* that reports a connection error and raises SystemExit.                  *)
(* main() first builds the SrxHelper from the configuration file, which    *)
(* validates the fields of the data models.  get_status, the other method  *)
(* of SrxHelper, is modelled as a run of its own (SpecStatus).             *)
(*                                                                         *)
(* The device library (jnpr.junos) is outside the repository.  Each call   *)
(* into it either returns or raises; what it returns and what it raises    *)
(* is chosen nondeterministically.  A device holds an active and a         *)
(* candidate configuration: load merges into the candidate, commit makes   *)
(* the candidate active, rollback resets the candidate to the active one.  *)
(***************************************************************************)
EXTENDS Integers, Sequences, FiniteSets

\* Largest inventory length explored.
MaxHosts == 2

\* Largest number of zones in the configuration file.
MaxZones == 2

\* Zone names; a device configuration is the set of zones it defines.
Zones == {"trust", "untrust"}

Config == SUBSET Zones

\* What a device holds before the run: nothing, or the trust zone.
DeviceConfigs == {{}, {"trust"}}

\* A field the configuration file leaves out (Python's None).
None == "None"

\* config_file["configuration"]["zones"]: a list of zones, each given by
\* its name, which the file may leave out.
ZoneLists == UNION {[1..n -> Zones \cup {None}] : n \in 0..MaxZones}

\* config_file["credentials"].
CredentialRecords ==
    [username : {"admin", None}, password : {"secret", None}, sshkey : {"id_rsa", None}]

\* Credentials(BaseModel): username is a required str, password and sshkey
\* are Optional and default to None; nothing else is validated.
ValidCredentials(c) == c.username # None

\* SecurityZones(BaseModel): name is a required str.
ValidSecurityZones(z) == z # None

\* Configuration(BaseModel): zones is a list of valid SecurityZones;
\* nothing compares the zones of the list with each other.
ValidConfiguration(zs) == \A k \in 1..Len(zs) : ValidSecurityZones(zs[k])

\* The statements the template renders from a list of zones.
Rendered(zs) == {zs[k] : k \in 1..Len(zs)}

\* The exception classes named by the except clause of security_zones.
ConnectKinds ==
    {"ConnectError", "ConnectUnknownHostError", "ConnectTimeoutError",
     "ConnectRefusedError", "ConnectAuthError"}

\* Any exception of the device library outside the Connect family
\* (a rejected load, a rejected commit, an RPC timeout, a template error).
OtherKinds == {"RpcError"}

\* What dev.open() can raise.
OpenErrors == ConnectKinds

\* What a call on an open session can raise: a lost connection surfaces as
\* ConnectError, everything else as an exception outside the family.
RpcErrors == {"ConnectError"} \cup OtherKinds

VARIABLES
    inventory,      \* self.inventory: sequence of hosts
    credentials,    \* self.credentials
    configuration,  \* self.configuration: the zones handed to the template
    each,           \* position in inventory of the loop variable `each`
    pc,             \* next statement of security_zones
    active,         \* device state: active configuration of each host
    candidate,      \* device state: candidate configuration of each host
    connected,      \* positions whose session is open (opened, not closed)
    response_error, \* exception in flight, or "none"
    logged,         \* sequence of errors passed to logger.error
    exitCode,       \* exit status of the process, -1 while it runs
    retval,         \* value returned by security_zones, NotReturned before
    calls,          \* history: device calls made, in order
    activeBefore    \* history: active configuration of a host at its open

vars ==
    <<inventory, credentials, configuration, each, pc, active, candidate, connected,
      response_error, logged, exitCode, retval, calls, activeBefore>>

Positions == 1..Len(inventory)

\* Hosts are named after their inventory position.
Inventories == {[p \in 1..n |-> p] : n \in 0..MaxHosts}

Call(p, op, res) == [pos |-> p, op |-> op, res |-> res]

\* Values security_zones can hand back: nothing yet, None, or a list.
NotReturned == [type |-> "unset"]

PyNone == [type |-> "NoneType"]

PyList(items) == [type |-> "list", items |-> items]

----------------------------------------------------------------------------
(* Control flow of security_zones *)

\* Succ with the else of the commit_check branch lost: rollback runs after
\* commit as well.
SuccFallsThrough(stmt) ==
    CASE stmt = "open"     -> "load"
      [] stmt = "load"     -> "pdiff"
      [] stmt = "pdiff2"   -> "commit_check"
      [] stmt = "commit"   -> "rollback"
      [] stmt = "rollback" -> "close"
      [] stmt = "close"    -> "for"

\* Succ with a rollback treated as fatal: the run ends after it.
SuccRollbackAborts(stmt) ==
    CASE stmt = "open"     -> "load"
      [] stmt = "load"     -> "pdiff"
      [] stmt = "pdiff2"   -> "commit_check"
      [] stmt = "commit"   -> "close"
      [] stmt = "rollback" -> "exited"
      [] stmt = "close"    -> "for"

\* Succ with the method returning from inside the loop after a commit.
SuccReturnsEarly(stmt) ==
    CASE stmt = "open"     -> "load"
      [] stmt = "load"     -> "pdiff"
      [] stmt = "pdiff2"   -> "commit_check"
      [] stmt = "commit"   -> "returned"
      [] stmt = "rollback" -> "close"
      [] stmt = "close"    -> "for"

\* The statement that follows stmt when stmt returns normally.
Succ(stmt) ==
    CASE stmt = "open"     -> "load"
      [] stmt = "load"     -> "pdiff"
      [] stmt = "pdiff2"   -> "commit_check"
      [] stmt = "commit"   -> "close"
      [] stmt = "rollback" -> "close"
      [] stmt = "close"    -> "for"

\* AfterPdiff with an empty diff taken as "nothing to validate": commit
\* follows at once.
AfterPdiffSkipsCheck(diff) == IF diff THEN "pdiff2" ELSE "commit"

\* AfterPdiff with the diff gating the transaction: no diff, nothing done.
AfterPdiffGates(diff) == IF diff THEN "pdiff2" ELSE "close"

\* if configuration.pdiff(): configuration.pdiff()
AfterPdiff(diff) == IF diff THEN "pdiff2" ELSE "commit_check"

\* AfterCommitCheck with the branches swapped.
AfterCommitCheckSwapped(ok) == IF ok THEN "rollback" ELSE "commit"

\* if configuration.commit_check(): commit() else: rollback()
AfterCommitCheck(ok) == IF ok THEN "commit" ELSE "rollback"

\* Unwind with a failed open skipped over: the loop goes on to the next host.
UnwindSkipsHost(stmt) == IF stmt = "open" THEN "close" ELSE "except"

\* Unwind with a failed rollback swallowed: the host is closed as if
\* rolled back.
UnwindSwallowsRollback(stmt) == IF stmt = "rollback" THEN "close" ELSE "except"

\* Unwind with a failed load retried from the top of the loop body.
UnwindRetriesLoad(stmt) == IF stmt = "load" THEN "for" ELSE "except"

\* Unwind with a failed open retried.
UnwindRetriesOpen(stmt) == IF stmt = "open" THEN "for" ELSE "except"

\* Unwind with every error handled per host: the host is closed and the
\* loop continues.
UnwindContinues(stmt) == "close"

\* Where control goes when stmt raises: every statement of the loop is
\* inside the try block, and nothing in it catches or releases on the way.
Unwind(stmt) == "except"

\* The except clause matches the Connect family only.
Caught(e) == e \in ConnectKinds

\* _print_error: hand the error to logger.error.
_print_error(log, e) == Append(log, e)

\* `raise SystemExit from response_error`: SystemExit carries no code, and
\* the interpreter exits with status 0 for a SystemExit whose code is None.
SystemExitCode == 0

\* An exception that leaves main() ends the interpreter with status 1.
UncaughtExitCode == 1

\* main() returning ends the interpreter with status 0.
NormalExitCode == 0

----------------------------------------------------------------------------
Init ==
    /\ inventory \in Inventories
    /\ credentials \in CredentialRecords
    /\ configuration \in ZoneLists
    /\ each = 1
    /\ pc = "main"
    /\ active \in [Positions -> DeviceConfigs]
    /\ candidate = active
    /\ connected = {}
    /\ response_error = "none"
    /\ logged = <<>>
    /\ exitCode = -1
    /\ retval = NotReturned
    /\ calls = <<>>
    /\ activeBefore = [p \in Positions |-> {}]

Host == inventory[each]

\* main(): SrxHelper(inventory=..., credentials=..., configuration=...)
\* validates its fields; security_zones() is called on the object built.
Construct ==
    /\ pc = "main"
    /\ ValidCredentials(credentials)
    /\ ValidConfiguration(configuration)
    /\ pc' = "for"
    /\ UNCHANGED <<inventory, credentials, configuration, each, active, candidate,
                   connected, response_error, logged, exitCode, retval, calls,
                   activeBefore>>

\* A field that fails validation raises ValidationError out of main().
ConstructFails ==
    /\ pc = "main"
    /\ ~(ValidCredentials(credentials) /\ ValidConfiguration(configuration))
    /\ response_error' = "ValidationError"
    /\ exitCode' = UncaughtExitCode
    /\ pc' = "crashed"
    /\ UNCHANGED <<inventory, credentials, configuration, each, active, candidate,
                   connected, logged, retval, calls, activeBefore>>

\* A statement raising e: the call is recorded and control unwinds.
Raises(stmt, e) ==
    /\ calls' = Append(calls, Call(each, stmt, e))
    /\ response_error' = e
    /\ pc' = Unwind(stmt)

\* for each in self.inventory: dev = self._connection_builder(each); dev.open()
Open ==
    /\ pc = "for"
    /\ each <= Len(inventory)
    /\ \/ /\ calls' = Append(calls, Call(each, "open", "ok"))
          /\ connected' = connected \cup {each}
          /\ activeBefore' = [activeBefore EXCEPT ![each] = active[Host]]
          /\ pc' = Succ("open")
          /\ UNCHANGED response_error
       \/ /\ \E e \in OpenErrors : Raises("open", e)
          /\ UNCHANGED <<connected, activeBefore>>
    /\ UNCHANGED <<inventory, credentials, configuration, each, active, candidate,
                   logged, exitCode, retval>>

\* configuration.load(template_path=..., template_vars=self.configuration,
\* format="set"): the rendered statements are merged into the candidate.
Load ==
    /\ pc = "load"
    /\ \/ /\ calls' = Append(calls, Call(each, "load", "ok"))
          /\ candidate' = [candidate EXCEPT ![Host] = @ \cup Rendered(configuration)]
          /\ pc' = Succ("load")
          /\ UNCHANGED response_error
       \/ /\ \E e \in RpcErrors : Raises("load", e)
          /\ UNCHANGED candidate
    /\ UNCHANGED <<inventory, credentials, configuration, each, active, connected,
                   logged, exitCode, retval, activeBefore>>

\* if configuration.pdiff(): the truth value of what the library returns.
Pdiff ==
    /\ pc = "pdiff"
    /\ \/ \E diff \in BOOLEAN :
            /\ calls' = Append(calls, Call(each, "pdiff", IF diff THEN "diff" ELSE "empty"))
            /\ pc' = AfterPdiff(diff)
            /\ UNCHANGED response_error
       \/ \E e \in RpcErrors : Raises("pdiff", e)
    /\ UNCHANGED <<inventory, credentials, configuration, each, active, candidate, connected,
                   logged, exitCode, retval, activeBefore>>

\* configuration.pdiff() a second time, its value discarded.
Pdiff2 ==
    /\ pc = "pdiff2"
    /\ \/ /\ calls' = Append(calls, Call(each, "pdiff", "diff"))
          /\ pc' = Succ("pdiff2")
          /\ UNCHANGED response_error
       \/ \E e \in RpcErrors : Raises("pdiff", e)
    /\ UNCHANGED <<inventory, credentials, configuration, each, active, candidate, connected,
                   logged, exitCode, retval, activeBefore>>

\* if configuration.commit_check():
CommitCheck ==
    /\ pc = "commit_check"
    /\ \/ \E ok \in BOOLEAN :
            /\ calls' = Append(calls, Call(each, "commit_check", IF ok THEN "true" ELSE "false"))
            /\ pc' = AfterCommitCheck(ok)
            /\ UNCHANGED response_error
       \/ \E e \in RpcErrors : Raises("commit_check", e)
    /\ UNCHANGED <<inventory, credentials, configuration, each, active, candidate, connected,
                   logged, exitCode, retval, activeBefore>>

\* configuration.commit(): the candidate becomes the active configuration;
\* a commit the device rejects leaves the active configuration as it was.
Commit ==
    /\ pc = "commit"
    /\ \/ /\ calls' = Append(calls, Call(each, "commit", "ok"))
          /\ active' = [active EXCEPT ![Host] = candidate[Host]]
          /\ pc' = Succ("commit")
          /\ UNCHANGED response_error
       \/ /\ \E e \in RpcErrors : Raises("commit", e)
          /\ UNCHANGED active
    /\ UNCHANGED <<inventory, credentials, configuration, each, candidate, connected,
                   logged, exitCode, retval, activeBefore>>

\* configuration.rollback(): the candidate is reset to the active
\* configuration; a rollback that fails leaves the candidate as it was.
Rollback ==
    /\ pc = "rollback"
    /\ \/ /\ calls' = Append(calls, Call(each, "rollback", "ok"))
          /\ candidate' = [candidate EXCEPT ![Host] = active[Host]]
          /\ pc' = Succ("rollback")
          /\ UNCHANGED response_error
       \/ /\ \E e \in RpcErrors : Raises("rollback", e)
          /\ UNCHANGED candidate
    /\ UNCHANGED <<inventory, credentials, configuration, each, active, connected,
                   logged, exitCode, retval, activeBefore>>

\* dev.close(), then the loop moves to the next host.
Close ==
    /\ pc = "close"
    /\ calls' = Append(calls, Call(each, "close", "ok"))
    /\ connected' = connected \ {each}
    /\ each' = each + 1
    /\ pc' = Succ("close")
    /\ UNCHANGED <<inventory, credentials, configuration, active, candidate, response_error,
                   logged, exitCode, retval, activeBefore>>

\* except (ConnectError, ...) as response_error:
\*     self._print_error(response_error); raise SystemExit from response_error
\* SystemExit leaves main() and ends the process.
Except ==
    /\ pc = "except"
    /\ Caught(response_error)
    /\ logged' = _print_error(logged, response_error)
    /\ exitCode' = SystemExitCode
    /\ pc' = "exited"
    /\ UNCHANGED <<inventory, credentials, configuration, each, active, candidate, connected,
                   response_error, retval, calls, activeBefore>>

\* An exception the except clause does not match leaves security_zones and
\* main() unhandled; the interpreter prints the traceback and exits.
Propagate ==
    /\ pc = "except"
    /\ ~Caught(response_error)
    /\ exitCode' = UncaughtExitCode
    /\ pc' = "crashed"
    /\ UNCHANGED <<inventory, credentials, configuration, each, active, candidate, connected,
                   response_error, logged, retval, calls, activeBefore>>

\* The loop is exhausted: security_zones falls off its end (returns None),
\* main() returns and the process ends.
Return ==
    /\ pc = "for"
    /\ each > Len(inventory)
    /\ retval' = PyNone
    /\ exitCode' = NormalExitCode
    /\ pc' = "returned"
    /\ UNCHANGED <<inventory, credentials, configuration, each, active, candidate, connected,
                   response_error, logged, calls, activeBefore>>

Next ==
    \/ Construct
    \/ ConstructFails
    \/ Open
    \/ Load
    \/ Pdiff
    \/ Pdiff2
    \/ CommitCheck
    \/ Commit
    \/ Rollback
    \/ Close
    \/ Except
    \/ Propagate
    \/ Return

Spec == Init /\ [][Next]_vars

\* The scheduler of a sequential program: a statement that can run, runs.
\* Every device call of the model returns or raises.
FairSpec == Spec /\ WF_vars(Next)

----------------------------------------------------------------------------
(* get_status, called on a constructed SrxHelper *)

\* get_status with the body of security_zones pasted in: load follows open.
StatusSuccLoads(stmt) ==
    CASE stmt = "open"  -> "load"
      [] stmt = "close" -> "gs_for"

\* The statement of get_status that follows stmt when stmt returns:
\* dev.open(); print(...); dev.close(); next host.
StatusSucc(stmt) ==
    CASE stmt = "open"  -> "gs_close"
      [] stmt = "close" -> "gs_for"

\* Where control goes when a statement of get_status raises: its loop is
\* inside its own try block.
StatusUnwind(stmt) == "gs_except"

InitStatus ==
    /\ inventory \in Inventories
    /\ credentials \in {c \in CredentialRecords : ValidCredentials(c)}
    /\ configuration \in {zs \in ZoneLists : ValidConfiguration(zs)}
    /\ each = 1
    /\ pc = "gs_for"
    /\ active \in [Positions -> DeviceConfigs]
    /\ candidate = active
    /\ connected = {}
    /\ response_error = "none"
    /\ logged = <<>>
    /\ exitCode = -1
    /\ retval = NotReturned
    /\ calls = <<>>
    /\ activeBefore = [p \in Positions |-> {}]

\* for each in self.inventory: dev = self._connection_builder(each); dev.open()
StatusOpen ==
    /\ pc = "gs_for"
    /\ each <= Len(inventory)
    /\ \/ /\ calls' = Append(calls, Call(each, "open", "ok"))
          /\ connected' = connected \cup {each}
          /\ activeBefore' = [activeBefore EXCEPT ![each] = active[Host]]
          /\ pc' = StatusSucc("open")
          /\ UNCHANGED response_error
       \/ /\ \E e \in OpenErrors :
                /\ calls' = Append(calls, Call(each, "open", e))
                /\ response_error' = e
                /\ pc' = StatusUnwind("open")
          /\ UNCHANGED <<connected, activeBefore>>
    /\ UNCHANGED <<inventory, credentials, configuration, each, active, candidate,
                   logged, exitCode, retval>>

\* print(...); dev.close(), then the loop moves to the next host.
StatusClose ==
    /\ pc = "gs_close"
    /\ calls' = Append(calls, Call(each, "close", "ok"))
    /\ connected' = connected \ {each}
    /\ each' = each + 1
    /\ pc' = StatusSucc("close")
    /\ UNCHANGED <<inventory, credentials, configuration, active, candidate,
                   response_error, logged, exitCode, retval, activeBefore>>

\* except (ConnectError, ...) as response_error:
\*     self._print_error(response_error); raise SystemExit from response_error
StatusExcept ==
    /\ pc = "gs_except"
    /\ Caught(response_error)
    /\ logged' = _print_error(logged, response_error)
    /\ exitCode' = SystemExitCode
    /\ pc' = "exited"
    /\ UNCHANGED <<inventory, credentials, configuration, each, active, candidate,
                   connected, response_error, retval, calls, activeBefore>>

\* The loop is exhausted: get_status returns None to its caller.
StatusReturn ==
    /\ pc = "gs_for"
    /\ each > Len(inventory)
    /\ retval' = PyNone
    /\ pc' = "returned"
    /\ UNCHANGED <<inventory, credentials, configuration, each, active, candidate,
                   connected, response_error, logged, exitCode, calls, activeBefore>>

NextStatus ==
    \/ StatusOpen
    \/ StatusClose
    \/ StatusExcept
    \/ StatusReturn

\* Runs of get_status.
SpecStatus == InitStatus /\ [][NextStatus]_vars

\* Runs of either method.
SpecAny == (Init \/ InitStatus) /\ [][Next \/ NextStatus]_vars

----------------------------------------------------------------------------
(* Vocabulary of the properties *)

Ended == pc \in {"returned", "exited", "crashed"}

Aborted == pc \in {"exited", "crashed"}

\* Indices of calls made on position p with operation op.
CallsOf(p, op) == {k \in 1..Len(calls) : calls[k].pos = p /\ calls[k].op = op}

Count(p, op) == Cardinality(CallsOf(p, op))

Opened(p) == \E k \in CallsOf(p, "open") : calls[k].res = "ok"

Validated(p, res) == \E k \in CallsOf(p, "commit_check") : calls[k].res = res

IsError(res) == res \in ConnectKinds \cup OtherKinds

\* Position p's transaction is over: the loop has moved on or the run ended.
TxOver(p) == each > p \/ (each = p /\ Ended)

TypeOK ==
    /\ inventory \in Inventories
    /\ credentials \in CredentialRecords
    /\ configuration \in ZoneLists
    /\ each \in 1..(Len(inventory) + 1)
    /\ pc \in {"gs_for", "gs_close", "gs_except", "main", "for", "load", "pdiff", "pdiff2", "commit_check", "commit",
               "rollback", "close", "except", "exited", "crashed", "returned"}
    /\ active \in [Positions -> Config]
    /\ candidate \in [Positions -> Config]
    /\ connected \subseteq Positions
    /\ response_error \in {"none", "ValidationError"} \cup ConnectKinds \cup OtherKinds
    /\ exitCode \in {-1, 0, 1}
    /\ retval \in {NotReturned, PyNone}

----------------------------------------------------------------------------
(* Properties *)

\* C1: for every host whose open succeeded, close is invoked exactly once
\* on that host's session before the run ends, on every exit path.
CloseExactlyOncePerOpen ==
    \A p \in Positions :
        /\ Count(p, "close") <= 1
        /\ (Ended /\ Opened(p)) => Count(p, "close") = 1

\* C2: when commit_check returns false on a host, rollback is invoked,
\* commit is never invoked, and the host's active configuration is the one
\* it had when the transaction began.
ValidateFalseRollsBack ==
    \A p \in Positions :
        Validated(p, "false") =>
            /\ Count(p, "commit") = 0
            /\ (each = p /\ pc = "rollback") \/ Count(p, "rollback") = 1
            /\ active[inventory[p]] = activeBefore[p]

\* A host whose candidate differed from its active configuration was
\* validated false, rolled back, and its transaction is over.
ValidateFalseWitness ==
    \E p \in Positions :
        /\ Validated(p, "false")
        /\ ~(Rendered(configuration) \subseteq activeBefore[p])
        /\ \E k \in CallsOf(p, "rollback") : calls[k].res = "ok"
        /\ TxOver(p)

\* C3: when commit_check returns true on a host, commit is invoked exactly
\* once and rollback is never invoked in that transaction.
ValidateTrueCommitsOnce ==
    \A p \in Positions :
        Validated(p, "true") =>
            /\ Count(p, "rollback") = 0
            /\ (each = p /\ pc = "commit") \/ Count(p, "commit") = 1

\* A host was validated true, committed a changed configuration, and the
\* loop moved on.
ValidateTrueWitness ==
    \E p \in Positions :
        /\ Validated(p, "true")
        /\ \E k \in CallsOf(p, "commit") : calls[k].res = "ok"
        /\ active[inventory[p]] # activeBefore[p]
        /\ TxOver(p)

\* C4: once open fails with a connection error at position i, no device
\* call is made on a later position (the failed open is the last device
\* call of the run), and the error has been logged when the run has ended.
OpenFailureStopsRun ==
    \A k \in 1..Len(calls) :
        (calls[k].op = "open" /\ calls[k].res \in ConnectKinds) =>
            /\ \A j \in 1..Len(calls) : calls[j].pos <= calls[k].pos
            /\ k = Len(calls)
            /\ Ended => \E m \in 1..Len(logged) : logged[m] = calls[k].res

\* The first of two hosts failed to open and the run has ended.
OpenFailureWitness ==
    /\ Len(inventory) >= 2
    /\ Ended
    /\ \E k \in CallsOf(1, "open") : calls[k].res \in ConnectKinds

\* C5: a run aborted by a connection error ends with a non-zero exit code;
\* the exit code is 0 only when the run was not aborted.
AbortExitsNonZero ==
    /\ (Ended /\ response_error \in ConnectKinds) => exitCode # 0
    /\ (Ended /\ exitCode = 0) => ~Aborted

\* C6: a successful rollback does not abort the run: the next device call
\* is the close of that host, and the one after it, when the host is not
\* the last, is the open of the next host; the run does not end before.
RollbackContinues ==
    \A k \in 1..Len(calls) :
        (calls[k].op = "rollback" /\ calls[k].res = "ok") =>
            /\ Validated(calls[k].pos, "false")
            /\ Len(calls) > k =>
                   /\ calls[k + 1] = Call(calls[k].pos, "close", "ok")
                   /\ calls[k].pos \notin connected
            /\ Len(calls) > k + 1 =>
                   /\ calls[k + 2].op = "open"
                   /\ calls[k + 2].pos = calls[k].pos + 1
            /\ Ended =>
                   /\ Len(calls) > k
                   /\ calls[k].pos < Len(inventory) => Len(calls) > k + 1

\* The first host was rolled back and closed, and the second was opened.
RollbackContinuesWitness ==
    /\ \E k \in CallsOf(1, "rollback") : calls[k].res = "ok"
    /\ Count(1, "close") = 1
    /\ Opened(2)

\* C7: if load, diff or validate raises on a host, a rollback has been
\* attempted on that host by the time the run has ended.
ErrorTriggersRollback ==
    \A k \in 1..Len(calls) :
        (calls[k].op \in {"load", "pdiff", "commit_check"} /\ IsError(calls[k].res)) =>
            (Ended => Count(calls[k].pos, "rollback") >= 1)

\* C8: every error that aborts the run has been passed to _print_error
\* when the run has ended.
FatalErrorsReported ==
    Aborted => \E m \in 1..Len(logged) : logged[m] = response_error

\* C9: after load, commit or rollback raises on a host, no further device
\* call is made (no later host is opened, the loop does not continue) and
\* the run is aborting or aborted.
FailedAbortsRun ==
    \A k \in 1..Len(calls) :
        (calls[k].op \in {"load", "commit", "rollback"} /\ IsError(calls[k].res)) =>
            /\ k = Len(calls)
            /\ pc \in {"except", "exited", "crashed"}
            /\ each = calls[k].pos

\* The rollback of the first of two hosts failed and the run has ended.
FailedAbortsWitness ==
    /\ Len(inventory) >= 2
    /\ Ended
    /\ \E k \in CallsOf(1, "rollback") : IsError(calls[k].res)

\* The terminal state the transaction of position p reached.
TerminalState(p) ==
    IF \E k \in CallsOf(p, "commit") : calls[k].res = "ok" THEN "Committed"
    ELSE IF \E k \in CallsOf(p, "rollback") : calls[k].res = "ok" THEN "RolledBack"
    ELSE "Failed"

\* Positions on which open succeeded.
Processed == {p \in Positions : Opened(p)}

\* C10: security_zones returns one result per host processed, in inventory
\* order, each with the host and the terminal state of its transaction.
ReturnsPerHostResults ==
    pc = "returned" =>
        retval = PyList([p \in 1..Cardinality(Processed) |->
                            [host |-> inventory[p], terminalState |-> TerminalState(p)]])

\* Two entries of the zones list carry the same name.
HasDuplicateZones(zs) ==
    \E j, k \in 1..Len(zs) : j # k /\ zs[j] # None /\ zs[j] = zs[k]

\* C11: a configuration whose zones list holds two zones of the same name
\* is rejected at construction, so no rollout starts with duplicate names.
DuplicateZonesRejected ==
    HasDuplicateZones(configuration) => (pc \in {"main", "crashed"} /\ calls = <<>>)

\* Neither password nor sshkey is set.
NoSecret(c) == c.password = None /\ c.sshkey = None

\* C12: credentials with neither password nor sshkey are rejected at
\* construction, so open is never invoked with credentials without a secret.
CredentialsCarrySecret ==
    NoSecret(credentials) => (pc \in {"main", "crashed"} /\ calls = <<>>)

\* The calls made on position p, in order.
OnHost(c, p) == c.pos = p

CallsOn(p) == SelectSeq(calls, LAMBDA c : OnHost(c, p))

\* The operations that may follow, on the same host, a call of op that
\* ended with res.
Follows(op, res) ==
    CASE op = "open" /\ res = "ok"            -> {"load"}
      [] op = "load" /\ res = "ok"            -> {"pdiff"}
      [] op = "pdiff" /\ res = "empty"        -> {"commit_check"}
      [] op = "pdiff" /\ res = "diff"         -> {"pdiff", "commit_check"}
      [] op = "commit_check" /\ res = "true"  -> {"commit"}
      [] op = "commit_check" /\ res = "false" -> {"rollback"}
      [] op = "commit" /\ res = "ok"          -> {"close"}
      [] op = "rollback" /\ res = "ok"        -> {"close"}
      [] OTHER                                -> {}

\* C13: on one host the device calls occur only in the order open, load,
\* diff (once or twice), validate, one of commit or rollback, close; commit
\* only after validate returned true; nothing but close after commit or
\* rollback.
\* How many calls of the sequence h are calls of op.
CountIn(h, op) == Cardinality({n \in 1..Len(h) : h[n].op = op})

TransactionOrder ==
    \A p \in Positions :
        LET h == CallsOn(p)
            commits == CountIn(h, "commit")
            rollbacks == CountIn(h, "rollback")
        IN  /\ \A n \in 1..Len(h) :
                   IF n = 1
                   THEN h[n].op = "open"
                   ELSE h[n].op \in Follows(h[n - 1].op, h[n - 1].res)
            /\ CountIn(h, "pdiff") <= 2
            /\ commits + rollbacks <= 1
            /\ commits > 0 => \E n \in 1..Len(h) : h[n].op = "commit_check" /\ h[n].res = "true"
            /\ CountIn(h, "close") > 0 => commits + rollbacks = 1

\* A host went through open, load, two diffs, validate, commit and close.
TransactionOrderWitness ==
    \E p \in Positions :
        /\ Count(p, "pdiff") = 2
        /\ Validated(p, "true")
        /\ Count(p, "commit") = 1
        /\ Count(p, "close") = 1

\* Every diff call of h, the calls made on position p, returned, and the
\* diff statement of p's transaction is behind.
DiffReturned(p, h) ==
    /\ \E n \in 1..Len(h) : h[n].op = "pdiff"
    /\ \A n \in 1..Len(h) : h[n].op = "pdiff" => ~IsError(h[n].res)
    /\ TxOver(p) \/ (each = p /\ pc \notin {"pdiff", "pdiff2", "commit_check"})

\* The call of commit_check among h returned res.
ValidatedIn(h, res) == \E n \in 1..Len(h) : h[n].op = "commit_check" /\ h[n].res = res

\* C14: the diff does not gate the transaction: once the diff has
\* returned, empty or not, validate is invoked exactly once, and commit or
\* rollback follow the validate result alone.
DiffNeverGates ==
    \A p \in Positions :
        LET h == CallsOn(p)
            checks == CountIn(h, "commit_check")
            commits == CountIn(h, "commit")
            rollbacks == CountIn(h, "rollback")
        IN  /\ checks <= 1
            /\ DiffReturned(p, h) => checks = 1
            /\ commits > 0 => ValidatedIn(h, "true")
            /\ rollbacks > 0 => ValidatedIn(h, "false")
            /\ (TxOver(p) /\ ValidatedIn(h, "true")) => commits = 1
            /\ (TxOver(p) /\ ValidatedIn(h, "false")) => rollbacks = 1

\* One host had an empty diff and was committed, another had a non-empty
\* diff and was rolled back.
DiffNeverGatesWitness ==
    \E p, q \in Positions :
        /\ \E k \in CallsOf(p, "pdiff") : calls[k].res = "empty"
        /\ Count(p, "commit") = 1
        /\ \E k \in CallsOf(q, "pdiff") : calls[k].res = "diff"
        /\ Count(q, "rollback") = 1
        /\ TxOver(p) /\ TxOver(q)

\* Successful opens, and closes, among the first n calls.
OpensBefore(n) == Cardinality({j \in 1..n : calls[j].op = "open" /\ calls[j].res = "ok"})

ClosesBefore(n) == Cardinality({j \in 1..n : calls[j].op = "close"})

\* C15: hosts are processed one at a time: at most one session is open,
\* every open is made when no session is open, and the open of position
\* i+1 comes after the close of position i.
OneSessionAtATime ==
    /\ Cardinality(connected) <= 1
    /\ \A k \in 1..Len(calls) :
           calls[k].op = "open" =>
               /\ OpensBefore(k - 1) = ClosesBefore(k - 1)
               /\ calls[k].pos > 1 =>
                      \E j \in 1..(k - 1) : calls[j] = Call(calls[k].pos - 1, "close", "ok")

\* The second host's session is open after the first was closed.
OneSessionWitness ==
    /\ Count(1, "close") = 1
    /\ connected = {2}

\* C16: the hosts on which open is invoked are a prefix of the inventory
\* in its order, each opened at most once.
OpensFormPrefix ==
    \A k \in 1..Len(calls) :
        calls[k].op = "open" =>
            calls[k].pos = 1 + Cardinality({j \in 1..(k - 1) : calls[j].op = "open"})

\* The first host was opened, the open of the second failed and the run
\* ended without another open.
OpensFormPrefixWitness ==
    /\ Ended
    /\ Opened(1)
    /\ \E k \in CallsOf(2, "open") : IsError(calls[k].res)

\* The transaction of position q ended in a commit, or in a rollback after
\* a false validation, and its session was closed, within the first n calls.
FinishedBefore(q, n) ==
    /\ \/ \E j \in 1..n : calls[j] = Call(q, "commit", "ok")
       \/ /\ \E j \in 1..n : calls[j] = Call(q, "rollback", "ok")
          /\ \E j \in 1..n : calls[j] = Call(q, "commit_check", "false")
    /\ \E j \in 1..n : calls[j] = Call(q, "close", "ok")
    /\ \A j \in 1..n : calls[j].pos = q => ~IsError(calls[j].res)

\* C17: when open is invoked on position k, every earlier position has
\* ended in commit or in rollback after a false validation, without an
\* error, and has been closed.
PredecessorsFinished ==
    \A k \in 1..Len(calls) :
        calls[k].op = "open" =>
            \A q \in 1..(calls[k].pos - 1) : FinishedBefore(q, k - 1)

\* The second host is opened after the first was rolled back.
PredecessorsFinishedWitness ==
    /\ \E j \in 1..Len(calls) : calls[j] = Call(1, "rollback", "ok")
    /\ \E j \in 1..Len(calls) : calls[j].op = "open" /\ calls[j].pos = 2

\* C18: get_status only opens and closes sessions: it invokes no load,
\* diff, validate, commit or rollback, and no step of it changes the
\* candidate or the active configuration of any device.
StatusTouchesNoConfig ==
    /\ [](/\ pc \in {"gs_for", "gs_close", "gs_except", "exited", "returned"}
          /\ \A k \in 1..Len(calls) : calls[k].op \in {"open", "close"})
    /\ [][active' = active /\ candidate' = candidate]_vars

\* A run of get_status that tested the first host and was aborted by a
\* connection error on the second.
StatusWitness ==
    /\ pc = "exited"
    /\ Count(1, "close") = 1
    /\ \E k \in CallsOf(2, "open") : calls[k].res \in ConnectKinds

\* No device call of the run raised.
AllCallsReturned == \A k \in 1..Len(calls) : ~IsError(calls[k].res)

\* C19: a run in which every device call returns or raises terminates;
\* a run of security_zones in which every device call succeeds ends by
\* returning, every host opened, committed or rolled back, and closed.
RunTerminates ==
    /\ <>Ended
    /\ []((Ended /\ AllCallsReturned /\ response_error = "none") =>
            /\ pc = "returned"
            /\ \A p \in Positions :
                   /\ Opened(p)
                   /\ TerminalState(p) \in {"Committed", "RolledBack"}
                   /\ Count(p, "close") = 1
                   /\ p \notin connected)

\* A run over two hosts returned.
RunTerminatesWitness ==
    /\ pc = "returned"
    /\ Len(inventory) >= 2
    /\ AllCallsReturned

====
